---------------------------- MODULE Spec2Model ----------------------------
(***************************************************************************)
(* A model of the DDQ validator (jahanzaib015/DDQ): the rule engine of     *)
(* ddq_validator/rules.py, the LLM refiner of ddq_validator/llm.py, the    *)
(* loaders of ddq_validator/extract.py, the redaction of                   *)
(* ddq_validator/redact.py and the drivers of ddq_validator/cli.py and     *)
(* api.py.                                                                 *)
(*                                                                         *)
(* Python strings are TLA+ strings; TLC evaluates Len, SubSeq and \o on    *)
(* them, so lower(), strip(), substring tests and the regular expressions  *)
(* of rules.py are computed character by character.                        *)
(***************************************************************************)
EXTENDS Integers, Sequences, FiniteSets, TLC

VARIABLES
    pc,          \* position of the modelled run
    row,         \* the QuestionRow handed to should_validate / validate_row
    cfg,         \* the RuleConfig handed to validate_row
    sv,          \* value returned by should_validate(row)
    res1,        \* value returned by the first validate_row(row, cfg)
    res2,        \* value returned by the second validate_row(row, cfg)
    wb,          \* the filled file: a workbook (a sequence of sheets, each a name and its cells) or a PDF
    max_rows_per_sheet,  \* --max-rows-per-sheet (0: no limit)
    use_llm,     \* --use-llm
    api_key,     \* whether OPENAI_API_KEY is set
    max_items,   \* llm_refine_findings' max_items
    rows,        \* the rows load_questions returned
    row_pos,     \* the driver loop's position in rows
    made,        \* made[n]: the object the driver loop created for rows[n]
    heap,        \* the Finding objects, by identity
    results,     \* the driver's results list (object identities)
    findings,    \* the driver's findings list (object identities)
    item_pos,    \* llm_refine_findings' position in findings[:max_items]
    calls,       \* positions in findings of the model calls issued, in order
    heap0,       \* the Finding objects as they were when refinement started
    replies,     \* replies[n]: the message content received for findings[n]
    summary      \* the summary write_report returned

rowVars == <<row, sv, res1, res2>>
inVars == <<wb, max_rows_per_sheet, use_llm, api_key, max_items>>
loopVars == <<rows, row_pos, made>>
objVars == <<heap, results, findings>>
llmVars == <<item_pos, calls, heap0, replies>>

vars == <<pc, cfg, rowVars, inVars, loopVars, objVars, llmVars, summary>>

-----------------------------------------------------------------------------
(* Python str primitives *)

Char(s, i) == SubSeq(s, i, i)

UpperChars == "ABCDEFGHIJKLMNOPQRSTUVWXYZÄÖÜ"
LowerChars == "abcdefghijklmnopqrstuvwxyzäöü"
DigitChars == "0123456789"

CharSet(chars) == {Char(chars, i) : i \in 1..Len(chars)}

UpperSet == CharSet(UpperChars)
LowerSet == CharSet(LowerChars)
DigitSet == CharSet(DigitChars)
WordSet == UpperSet \cup LowerSet \cup DigitSet \cup {"_"}
SpaceSet == {" ", "\t", "\n", "\r", "\f"}

\* str.lower() on one character
LowerMap ==
    [c \in UpperSet |->
        Char(LowerChars, CHOOSE i \in 1..Len(UpperChars) : Char(UpperChars, i) = c)]

IsUpper(c) == c \in UpperSet
IsLowerLetter(c) == c \in LowerSet
IsDigit(c) == c \in DigitSet

\* \s of the re module and the characters str.strip() removes
IsSpace(c) == c \in SpaceSet

\* \w of the re module on str patterns: letters, digits and the underscore
IsWordChar(c) == c \in WordSet

LowerChar(c) == IF c \in UpperSet THEN LowerMap[c] ELSE c

\* str.lower(): every character lower-cased, computed by halves
RECURSIVE Lower(_)
Lower(s) ==
    IF Len(s) = 0 THEN ""
    ELSE IF Len(s) = 1 THEN LowerChar(s)
    ELSE Lower(SubSeq(s, 1, Len(s) \div 2)) \o Lower(SubSeq(s, Len(s) \div 2 + 1, Len(s)))

\* first position >= i of s that holds no whitespace (Len(s)+1 when none)
RECURSIVE SkipSpace(_, _)
SkipSpace(s, i) ==
    IF i <= Len(s) /\ IsSpace(Char(s, i)) THEN SkipSpace(s, i + 1) ELSE i

\* last position <= i of s that holds no whitespace (0 when none)
RECURSIVE SkipSpaceBack(_, _)
SkipSpaceBack(s, i) ==
    IF i >= 1 /\ IsSpace(Char(s, i)) THEN SkipSpaceBack(s, i - 1) ELSE i

\* str.strip()
Strip(s) ==
    LET first == SkipSpace(s, 1)
    IN  IF first > Len(s) THEN "" ELSE SubSeq(s, first, SkipSpaceBack(s, Len(s)))

\* s[i:i+len(t)] == t
HasAt(s, i, t) == i >= 1 /\ i + Len(t) - 1 <= Len(s) /\ SubSeq(s, i, i + Len(t) - 1) = t

\* t in s
Contains(s, t) == Len(t) = 0 \/ \E i \in 1..Len(s) : HasAt(s, i, t)

\* s.startswith(t)
StartsWith(s, t) == Len(t) = 0 \/ HasAt(s, 1, t)

ContainsAny(s, ts) == \E t \in ts : Contains(s, t)

\* position i of s holds a \w character (positions outside s do not)
WordAt(s, i) == i >= 1 /\ i <= Len(s) /\ IsWordChar(Char(s, i))

\* \b between positions g and g+1 of s
Boundary(s, g) == WordAt(s, g) # WordAt(s, g + 1)

\* re.search(r"\b(w)\b", s, re.I) for a literal w
SearchAnyWord(s, ws) ==
    LET l == Lower(s)
    IN  \E w \in ws : \E i \in 1..Len(s) :
            /\ HasAt(l, i, w)
            /\ Boundary(s, i - 1)
            /\ Boundary(s, i + Len(w) - 1)

\* the literals of parts, in order from position i, separated by \s*
RECURSIVE MatchParts(_, _, _)
MatchParts(s, i, parts) ==
    IF parts = <<>> THEN TRUE
    ELSE /\ HasAt(s, i, Head(parts))
         /\ \/ Tail(parts) = <<>>
            \/ MatchParts(s, SkipSpace(s, i + Len(Head(parts))), Tail(parts))

\* re.search of the literals of parts separated by \s*, in a lower-cased s
SearchParts(l, parts) == \E i \in 1..Len(l) : MatchParts(l, i, parts)

\* first position >= i of s that holds neither a space nor a tab
RECURSIVE SkipBlanks(_, _)
SkipBlanks(s, i) ==
    IF i <= Len(s) /\ Char(s, i) \in {" ", "\t"} THEN SkipBlanks(s, i + 1) ELSE i

\* first position >= i of s that holds no digit (Len(s)+1 when none)
RECURSIVE SkipDigits(_, _)
SkipDigits(s, i) ==
    IF i <= Len(s) /\ IsDigit(Char(s, i)) THEN SkipDigits(s, i + 1) ELSE i


-----------------------------------------------------------------------------
(* rules.py: patterns *)

YES_WORDS == {"ja", "yes", "y", "bestätigt", "confirmed"}
NO_WORDS == {"nein", "no", "n"}
REFUSAL_WORDS == {"refusal", "refuse", "decline", "not to answer", "no answer"}
FILE_EXTENSIONS ==
    {"pdf", "docx", "doc", "xlsx", "xls", "pptx", "ppt", "zip", "png", "jpg", "jpeg", "csv"}
REFERENCE_WORDS ==
    {"see", "refer", "reference", "attached", "attachment", "annex", "section",
     "chapter", "appendix", "siehe", "vgl.", "verweis", "anhang", "beigefügt",
     "abschnitt", "kapitel", "ziffer"}
QUESTION_VERBS ==
    {"beschreiben", "erläutern", "bestätigen", "informieren", "detaillieren", "teilen"}
DESCRIPTIVE_VERBS == {"beschreiben", "erläutern", "detaillieren"}

\* the number of [0-9] the phone pattern asks for
PhoneDigits == 7

YES_PAT(s) == SearchAnyWord(s, YES_WORDS)

NO_PAT(s) == SearchAnyWord(s, NO_WORDS)

REFUSAL_PAT(s) == SearchAnyWord(s, REFUSAL_WORDS)

\* ^[^@\s]+@[^@\s]+\.[^@\s]+$ matched from the start of s
EMAIL_PAT(s) ==
    /\ \A i \in 1..Len(s) : ~IsSpace(Char(s, i))
    /\ \E p \in 2..Len(s) :
        /\ Char(s, p) = "@"
        /\ \A i \in 1..Len(s) : Char(s, i) = "@" => i = p
        /\ \E d \in (p + 2)..(Len(s) - 1) : Char(s, d) = "."

\* seven digits with .* between them: "." matches no line break
PHONE_PAT(s) ==
    \E i \in 1..Len(s) :
        LET breaks == {k \in i..Len(s) : Char(s, k) = "\n"}
            stop == IF breaks = {} THEN Len(s) + 1
                    ELSE CHOOSE k \in breaks : \A m \in breaks : k <= m
        IN  Cardinality({k \in i..(stop - 1) : IsDigit(Char(s, k))}) >= PhoneDigits

\* (https?://|www\.)\S+ with re.I
URL_PAT(s) ==
    LET l == Lower(s)
    IN  \E i \in 1..Len(s) : \E p \in {"http://", "https://", "www."} :
            /\ HasAt(l, i, p)
            /\ i + Len(p) <= Len(s)
            /\ ~IsSpace(Char(s, i + Len(p)))

\* \b[\w\-.]+\.(ext)\b with re.I
FILENAME_PAT(s) ==
    LET l == Lower(s)
    IN  \E j \in 2..Len(s) :
            /\ Char(s, j) = "."
            /\ \E ext \in FILE_EXTENSIONS :
                /\ HasAt(l, j + 1, ext)
                /\ Boundary(s, j + Len(ext))
            /\ \E i \in 1..(j - 1) :
                /\ WordAt(s, i) /\ ~WordAt(s, i - 1)
                /\ \A k \in i..(j - 1) :
                    IsWordChar(Char(s, k)) \/ Char(s, k) \in {"-", "."}

SIGNATURE_PAT(s) ==
    LET l == Lower(s)
    IN  \/ ContainsAny(l, {"signature", "signatur", "unterschrift"})
        \/ SearchParts(l, <<"name", "&", "position">>)
        \/ SearchParts(l, <<"name", "and", "position">>)
        \/ SearchParts(l, <<"ort", "/", "datum">>)
        \/ SearchParts(l, <<"place", "/", "date">>)

\* \b\d+(?:\.\d+){1,}\b, e.g. 4.1.9
DottedNumber(s) ==
    \E i \in 1..Len(s) :
        /\ IsDigit(Char(s, i)) /\ ~WordAt(s, i - 1)
        /\ LET j == SkipDigits(s, i)
           IN  /\ HasAt(s, j, ".")
               /\ j + 1 <= Len(s) /\ IsDigit(Char(s, j + 1))
               /\ ~WordAt(s, SkipDigits(s, j + 1))

REFERENCE_PAT(s) ==
    (LET l == Lower(s) IN ContainsAny(l, REFERENCE_WORDS)) \/ DottedNumber(s)

-----------------------------------------------------------------------------
(* rules.py: configuration *)

DefaultForbiddenTokens ==
    <<"n/a", "n.a", "na", "not applicable", "tbd", "to be defined", "later",
      "unknown", "k.a", "keine angabe">>

DefaultMinLenDescriptive == 20

RuleConfigDefault ==
    [forbidden_tokens |-> DefaultForbiddenTokens,
     min_len_descriptive |-> DefaultMinLenDescriptive]

-----------------------------------------------------------------------------
(* rules.py: classifiers and detectors *)

looks_like_question(text) ==
    LET t == Strip(text)
        tl == Lower(t)
    IN  /\ t # ""
        /\ \/ \E st \in {"bitte", "please", "sofern", "gab", "wurde", "hat", "ist",
                         "nutzen", "wird"} : StartsWith(tl, st)
           \/ Contains(t, "?")
           \/ SearchAnyWord(t, QUESTION_VERBS)

looks_like_note(expected, question_text) ==
    LET e == Lower(Strip(expected))
        q == Lower(Strip(question_text))
    IN  /\ e # ""
        /\ \/ \E st \in {"please note", "bitte beachten", "hinweis", "note:",
                         "the following documents"} : StartsWith(e, st)
           \/ /\ q \in {"prozesse", "dokumentation", "outsourcing"}
              /\ ContainsAny(e, {"please note", "bitte", "note"})

is_signature_row(r) ==
    SIGNATURE_PAT(Lower(r.question_text)) \/ SIGNATURE_PAT(Lower(r.expected_text))

is_allgemeiner_sheet(sheet) == ContainsAny(Lower(sheet), {"allgemein", "general"})

is_fondsmanagement_sheet(sheet) ==
    ContainsAny(Lower(sheet), {"fondsmanagement", "fund management"})

is_innenrevision_sheet(sheet) == Contains(Lower(sheet), "innenrevision")

is_regta_sheet(sheet) == Contains(Lower(sheet), "regta")

\* a classifier that takes either keyword for the category
is_zv_fobu_sheet_Either(sheet) ==
    Contains(Lower(sheet), "zv") \/ Contains(Lower(sheet), "fobu")

is_zv_fobu_sheet(sheet) == Contains(Lower(sheet), "zv") /\ Contains(Lower(sheet), "fobu")

is_verwahrstelle_sheet(sheet) == Contains(Lower(sheet), "verwahrstelle")

expected_requires_filename(expected) ==
    ContainsAny(Lower(expected), {"name of a file", "name of file", "dateiname"})

expected_requires_number_and_text(expected) ==
    ContainsAny(Lower(expected), {"number and text obligatory", "nummer und text"})

\* a test for the first of the two phrases only
expected_content_not_relevant_FirstOnly(expected) ==
    Contains(Lower(expected), "content not relevant")

expected_content_not_relevant(expected) ==
    ContainsAny(Lower(expected), {"content not relevant", "fields must only be filled"})

expected_disallow_reference(expected) ==
    ContainsAny(Lower(expected),
                {"reference to a document is not acceptable",
                 "reference to another document is not acceptable",
                 "only reference to another document is also not acceptable"})

expected_disallow_refusal(expected) ==
    LET e == Lower(expected)
    IN  \/ Contains(e, "refusal is not acceptable")
        \/ Contains(e, "any sort of refusal is not acceptable")
        \/ (Contains(e, "not acceptable") /\ Contains(e, "n/a"))

looks_like_email(answer) == EMAIL_PAT(Strip(answer))

looks_like_phone(answer) == PHONE_PAT(answer)

looks_like_url(answer) ==
    LET a == Strip(answer)
    IN  URL_PAT(a) \/ (Contains(a, ".") /\ ~Contains(a, " ") /\ Len(a) >= 4)

looks_like_filename(answer) == FILENAME_PAT(answer)

has_number_and_text(answer) ==
    LET a == Strip(answer)
    IN  /\ \E i \in 1..Len(a) : IsDigit(Char(a, i))
        /\ \E i \in 1..Len(a) : IsUpper(Char(a, i)) \/ IsLowerLetter(Char(a, i))

\* Optional[str]: None is the string NoneStr, which no branch returns as a value
NoneStr == "None"

expected_yes_no(expected) ==
    LET e == Lower(expected)
    IN  IF Contains(e, "ja") /\ ~Contains(e, "nein") THEN "YES"
        ELSE IF Contains(e, "nein") /\ ~Contains(e, "ja") THEN "NO"
        ELSE NoneStr

\* should_validate with the signature check moved before the note check
should_validate_SignatureFirst(r) ==
    LET expected == r.expected_text
        e_lower == Lower(expected)
    IN  IF is_signature_row(r) THEN TRUE
        ELSE IF looks_like_note(expected, r.question_text) THEN FALSE
        ELSE IF looks_like_question(r.question_text) THEN TRUE
        ELSE IF Contains(e_lower, "[text]") THEN TRUE
        ELSE IF ContainsAny(e_lower, {"obligatory", "not acceptable", "must",
                                      "fields must only be filled",
                                      "number and text obligatory"}) THEN TRUE
        ELSE IF expected_yes_no(expected) # NoneStr THEN TRUE
        ELSE FALSE

should_validate(r) ==
    LET expected == r.expected_text
        e_lower == Lower(expected)
    IN  IF looks_like_note(expected, r.question_text) THEN FALSE
        ELSE IF is_signature_row(r) THEN TRUE
        ELSE IF looks_like_question(r.question_text) THEN TRUE
        ELSE IF Contains(e_lower, "[text]") THEN TRUE
        ELSE IF ContainsAny(e_lower, {"obligatory", "not acceptable", "must",
                                      "fields must only be filled",
                                      "number and text obligatory"}) THEN TRUE
        ELSE IF expected_yes_no(expected) # NoneStr THEN TRUE
        ELSE FALSE

is_mandatory(r) ==
    LET e == Lower(r.expected_text)
        q == Lower(r.question_text)
    IN  IF ContainsAny(e, {"obligatory", "not acceptable", "must"}) THEN TRUE
        ELSE IF Strip(e) # "" THEN TRUE
        ELSE IF \E st \in {"name der", "e-mail", "telefon"} : StartsWith(q, st) THEN TRUE
        ELSE FALSE

detect_reference(answer) == REFERENCE_PAT(answer)

\* the last token of tokens, from position i on, that is a substring of a
RECURSIVE LastTokenIn(_, _, _)
LastTokenIn(a, tokens, i) ==
    IF i > Len(tokens) THEN ""
    ELSE IF LastTokenIn(a, tokens, i + 1) # "" THEN LastTokenIn(a, tokens, i + 1)
    ELSE IF Contains(a, tokens[i]) THEN tokens[i]
    ELSE ""

\* the first token of tokens, from position i on, that is a substring of a
RECURSIVE FirstTokenIn(_, _, _)
FirstTokenIn(a, tokens, i) ==
    IF i > Len(tokens) THEN ""
    ELSE IF Contains(a, tokens[i]) THEN tokens[i]
    ELSE FirstTokenIn(a, tokens, i + 1)

\* Optional[str]: None is "", which both callers test for truth only
contains_forbidden(answer, c) ==
    LET a == Lower(Strip(answer))
    IN  IF a = "" THEN "" ELSE FirstTokenIn(a, c.forbidden_tokens, 1)

-----------------------------------------------------------------------------
(* models.py and rules.py: validate_row *)

\* validate_row's "return None"
None == [none |-> TRUE]

\* a rule of the cascade that did not return: control falls through to the next
Continue == [continue |-> TRUE]

\* Finding(sheet=row.sheet, ..., status=, reason=, details=)
Finding(r, status, reason, details) ==
    [sheet |-> r.sheet, row_idx |-> r.row_idx, question_id |-> r.question_id,
     question_text |-> r.question_text, answer_text |-> r.answer_text,
     expected_text |-> r.expected_text,
     status |-> status, reason |-> reason, details |-> details]

\* the signature block without its closing "return None": a clean answer goes on
\* to the reference rule
SignatureRule_FallsThrough(r, answer, c) ==
    IF answer = "" \/ contains_forbidden(answer, c) # ""
    THEN Finding(r, "INCOMPLETE", "Signature/name/date is missing.",
                 [expected |-> "signature"])
    ELSE IF detect_reference(answer)
    THEN Finding(r, "NEEDS_EVIDENCE",
                 "Answer references an attachment/section; requires document evidence retrieval.",
                 [reference_detected |-> TRUE])
    ELSE None

\* the signature block flagging a forbidden token on mandatory rows only, as the
\* forbidden-token rule does for other rows
SignatureRule_MandatoryOnly(r, answer, c) ==
    IF answer = "" \/ (contains_forbidden(answer, c) # "" /\ is_mandatory(r))
    THEN Finding(r, "INCOMPLETE", "Signature/name/date is missing.",
                 [expected |-> "signature"])
    ELSE None

SignatureRule(r, answer, c) ==
    IF answer = "" \/ contains_forbidden(answer, c) # ""
    THEN Finding(r, "INCOMPLETE", "Signature/name/date is missing.",
                 [expected |-> "signature"])
    ELSE None

\* the empty-answer block flagging INCOMPLETE instead of REJECTED
EmptyAnswerRule_Incomplete(r, mandatory) ==
    IF mandatory
    THEN Finding(r, "INCOMPLETE", "Mandatory field is empty.", [mandatory |-> TRUE])
    ELSE None

EmptyAnswerRule(r, mandatory) ==
    IF mandatory
    THEN Finding(r, "REJECTED", "Mandatory field is empty.", [mandatory |-> TRUE])
    ELSE None

ForbiddenRule(r, answer, mandatory, c) ==
    LET forbidden == contains_forbidden(answer, c)
    IN  IF forbidden # "" /\ mandatory
        THEN Finding(r, "REJECTED",
                     "Answer contains forbidden placeholder: '" \o forbidden \o "'.",
                     [forbidden |-> forbidden])
        ELSE Continue

\* a filename rule that reports the row as OK with a note
FilenameRule_Ok(r, answer, expected) ==
    IF expected_requires_filename(expected) /\ ~looks_like_filename(answer)
    THEN Finding(r, "OK", "Expected a filename (e.g., .pdf/.docx) but none found.",
                 [expected |-> "filename"])
    ELSE Continue

FilenameRule(r, answer, expected) ==
    IF expected_requires_filename(expected) /\ ~looks_like_filename(answer)
    THEN Finding(r, "INCOMPLETE",
                 "Expected a filename (e.g., .pdf/.docx) but none found.",
                 [expected |-> "filename"])
    ELSE Continue

NumberAndTextRule(r, answer, expected) ==
    IF expected_requires_number_and_text(expected) /\ ~has_number_and_text(answer)
    THEN Finding(r, "INCOMPLETE", "Expected both a number and descriptive text.",
                 [expected |-> "number+text"])
    ELSE Continue

\* the general block with the phone check ahead of the e-mail check
AllgemeinerRules_PhoneFirst(r, answer, expected) ==
    LET q_lower == Lower(r.question_text)
        e_lower == Lower(expected)
    IN  IF ~is_allgemeiner_sheet(r.sheet) THEN Continue
        ELSE IF NumberAndTextRule(r, answer, expected) # Continue
        THEN NumberAndTextRule(r, answer, expected)
        ELSE IF /\ \/ Contains(q_lower, "telefon") \/ Contains(q_lower, "phone")
                   \/ Contains(e_lower, "telefon")
                /\ ~looks_like_phone(answer)
        THEN Finding(r, "INCOMPLETE", "Expected a valid phone number.",
                     [expected |-> "phone"])
        ELSE IF /\ \/ Contains(q_lower, "e-mail") \/ Contains(q_lower, "email")
                   \/ Contains(e_lower, "e-mail")
                /\ ~looks_like_email(answer)
        THEN Finding(r, "INCOMPLETE", "Expected a valid email address.",
                     [expected |-> "email"])
        ELSE IF /\ Contains(q_lower, "website") \/ Contains(q_lower, "web")
                /\ ~looks_like_url(answer)
        THEN Finding(r, "INCOMPLETE", "Expected a website/URL.", [expected |-> "url"])
        ELSE IF expected_content_not_relevant(expected) THEN None
        ELSE Continue

AllgemeinerRules(r, answer, expected) ==
    LET q_lower == Lower(r.question_text)
        e_lower == Lower(expected)
    IN  IF ~is_allgemeiner_sheet(r.sheet) THEN Continue
        ELSE IF NumberAndTextRule(r, answer, expected) # Continue
        THEN NumberAndTextRule(r, answer, expected)
        ELSE IF /\ \/ Contains(q_lower, "e-mail") \/ Contains(q_lower, "email")
                   \/ Contains(e_lower, "e-mail")
                /\ ~looks_like_email(answer)
        THEN Finding(r, "INCOMPLETE", "Expected a valid email address.",
                     [expected |-> "email"])
        ELSE IF /\ \/ Contains(q_lower, "telefon") \/ Contains(q_lower, "phone")
                   \/ Contains(e_lower, "telefon")
                /\ ~looks_like_phone(answer)
        THEN Finding(r, "INCOMPLETE", "Expected a valid phone number.",
                     [expected |-> "phone"])
        ELSE IF /\ Contains(q_lower, "website") \/ Contains(q_lower, "web")
                /\ ~looks_like_url(answer)
        THEN Finding(r, "INCOMPLETE", "Expected a website/URL.", [expected |-> "url"])
        ELSE IF expected_content_not_relevant(expected) THEN None
        ELSE Continue

ReferenceOnlyFinding(r) ==
    Finding(r, "REJECTED",
            "Reference-only answers are not acceptable; provide substantive text.",
            [reference_only |-> TRUE])

RefusalRule(r, answer, expected) ==
    IF expected_disallow_refusal(expected) /\ REFUSAL_PAT(answer)
    THEN Finding(r, "REJECTED",
                 "Refusal-style answers are not acceptable for this question.",
                 [refusal |-> TRUE])
    ELSE Continue

FondsmanagementRules(r, answer, expected) ==
    IF ~is_fondsmanagement_sheet(r.sheet) THEN Continue
    ELSE IF /\ expected_disallow_reference(expected)
            /\ detect_reference(answer) /\ ~Contains(Lower(answer), "policy")
    THEN ReferenceOnlyFinding(r)
    ELSE RefusalRule(r, answer, expected)

RegtaRules(r, answer, expected) ==
    IF ~is_regta_sheet(r.sheet) THEN Continue
    ELSE IF expected_disallow_reference(expected) /\ detect_reference(answer)
    THEN ReferenceOnlyFinding(r)
    ELSE RefusalRule(r, answer, expected)

ZvFobuRules(r, answer, expected) ==
    IF ~is_zv_fobu_sheet(r.sheet) THEN Continue
    ELSE IF expected_disallow_reference(expected) /\ detect_reference(answer)
    THEN ReferenceOnlyFinding(r)
    ELSE RefusalRule(r, answer, expected)

VerwahrstelleRules(r, answer, expected) ==
    IF ~is_verwahrstelle_sheet(r.sheet) THEN Continue
    ELSE IF expected_disallow_reference(expected) /\ detect_reference(answer)
    THEN ReferenceOnlyFinding(r)
    ELSE RefusalRule(r, answer, expected)

InnenrevisionRules(r, answer, expected) ==
    IF ~is_innenrevision_sheet(r.sheet) THEN Continue
    ELSE NumberAndTextRule(r, answer, expected)

\* a reference rule that flags the answer as incomplete
ReferenceRule_Incomplete(r, answer) ==
    IF detect_reference(answer)
    THEN Finding(r, "INCOMPLETE",
                 "Answer references an attachment/section; requires document evidence retrieval.",
                 [reference_detected |-> TRUE])
    ELSE Continue

ReferenceRule(r, answer) ==
    IF detect_reference(answer)
    THEN Finding(r, "NEEDS_EVIDENCE",
                 "Answer references an attachment/section; requires document evidence retrieval.",
                 [reference_detected |-> TRUE])
    ELSE Continue

\* a yes/no rule that checks the YES expectation only
YesNoRule_YesOnly(r, answer, expected) ==
    LET yn == expected_yes_no(expected)
    IN  IF yn = "YES" /\ ~YES_PAT(answer)
        THEN Finding(r, "INCOMPLETE",
                     "Expected a 'Yes/Confirmed' style answer based on model answer.",
                     [expected |-> "YES"])
        ELSE Continue

YesNoRule(r, answer, expected) ==
    LET yn == expected_yes_no(expected)
    IN  IF yn = "YES" /\ ~YES_PAT(answer)
        THEN Finding(r, "INCOMPLETE",
                     "Expected a 'Yes/Confirmed' style answer based on model answer.",
                     [expected |-> "YES"])
        ELSE IF yn = "NO" /\ ~NO_PAT(answer)
        THEN Finding(r, "INCOMPLETE", "Expected a 'No' style answer based on model answer.",
                     [expected |-> "NO"])
        ELSE Continue

\* a descriptive rule that also flags an answer of exactly the minimum length
DescriptiveRule_AtMost(r, answer, expected, c) ==
    IF /\ \/ Contains(Lower(expected), "[text]")
          \/ SearchAnyWord(r.question_text, DESCRIPTIVE_VERBS)
       /\ Len(answer) <= c.min_len_descriptive
    THEN Finding(r, "INCOMPLETE",
                 "Answer is too short for a descriptive question (min "
                     \o ToString(c.min_len_descriptive) \o " chars).",
                 [min_len |-> c.min_len_descriptive, actual_len |-> Len(answer)])
    ELSE Continue

DescriptiveRule(r, answer, expected, c) ==
    IF /\ \/ Contains(Lower(expected), "[text]")
          \/ SearchAnyWord(r.question_text, DESCRIPTIVE_VERBS)
       /\ Len(answer) < c.min_len_descriptive
    THEN Finding(r, "INCOMPLETE",
                 "Answer is too short for a descriptive question (min "
                     \o ToString(c.min_len_descriptive) \o " chars).",
                 [min_len |-> c.min_len_descriptive, actual_len |-> Len(answer)])
    ELSE Continue

\* the rules that follow the empty-answer check, in the order of the source;
\* the first one that returns decides
RECURSIVE FirstVerdict(_, _, _, _, _, _)
FirstVerdict(n, r, answer, expected, mandatory, c) ==
    LET v == CASE n = 1 -> ForbiddenRule(r, answer, mandatory, c)
               [] n = 2 -> FilenameRule(r, answer, expected)
               [] n = 3 -> AllgemeinerRules(r, answer, expected)
               [] n = 4 -> FondsmanagementRules(r, answer, expected)
               [] n = 5 -> RegtaRules(r, answer, expected)
               [] n = 6 -> ZvFobuRules(r, answer, expected)
               [] n = 7 -> VerwahrstelleRules(r, answer, expected)
               [] n = 8 -> InnenrevisionRules(r, answer, expected)
               [] n = 9 -> ReferenceRule(r, answer)
               [] n = 10 -> YesNoRule(r, answer, expected)
               [] n = 11 -> DescriptiveRule(r, answer, expected, c)
               [] OTHER -> None
    IN  IF v # Continue THEN v
        ELSE FirstVerdict(n + 1, r, answer, expected, mandatory, c)

validate_row(r, c) ==
    IF ~should_validate(r) THEN None
    ELSE LET answer == Strip(r.answer_text)
             expected == Strip(r.expected_text)
             mandatory == is_mandatory(r)
         IN  IF is_signature_row(r) THEN SignatureRule(r, answer, c)
             ELSE IF answer = "" THEN EmptyAnswerRule(r, mandatory)
             ELSE FirstVerdict(1, r, answer, expected, mandatory, c)

-----------------------------------------------------------------------------
(* Inputs of the rule engine *)

Sheets ==
    {"General", "Fund Management", "RegTA", "ZV FoBu", "Verwahrstelle",
     "Innenrevision", "PDF"}

QuestionTexts ==
    {"", "Prozesse", "Name der Firma", "E-Mail:", "Telefon?", "Website?",
     "Bitte beschreiben Sie den Prozess.", "Ort / Datum"}

AnswerTexts ==
    {"", "  ", "TBD", "N/A (later)", "OK", "Ja", "Nein", "See attachment Annex 3",
     "not-an-email", "info@firma.de", "report.pdf", "We decline, see policy 4.1",
     "Wir haben 3 Prozesse definiert und dokumentiert.", "+49 30 1234567",
     "www.firma.de", "Prozess ist geprüft", "Zwanzig Zeichen lang"}

ExpectedTexts ==
    {"", "[text]", "Field is obligatory", "Please note: optional", "Ja, bestätigt.",
     "Nein", "Ja / Nein", "Name of file", "Number and text obligatory", "Content not relevant",
     "Reference to a document is not acceptable. Refusal is not acceptable.",
     "Unterschrift", "E-Mail is obligatory"}

Rows ==
    [sheet : Sheets, row_idx : {1}, question_id : {"1.1"},
     question_text : QuestionTexts, answer_text : AnswerTexts,
     expected_text : ExpectedTexts]

-----------------------------------------------------------------------------
(* The rule engine called on one row *)

\* the value of a variable the run does not use
Unused == <<>>

PipelineIdle ==
    /\ wb = Unused /\ max_rows_per_sheet = 0 /\ use_llm = FALSE /\ api_key = FALSE
    /\ max_items = 0 /\ rows = <<>> /\ row_pos = 0 /\ made = <<>>
    /\ heap = <<>> /\ results = <<>> /\ findings = <<>>
    /\ item_pos = 0 /\ calls = <<>> /\ heap0 = <<>> /\ replies = <<>>
    /\ summary = Unused

Init ==
    /\ pc = "start"
    /\ row \in Rows
    /\ cfg = RuleConfigDefault
    /\ sv = FALSE
    /\ res1 = None
    /\ res2 = None
    /\ PipelineIdle

CallShouldValidate ==
    /\ pc = "start"
    /\ sv' = should_validate(row)
    /\ pc' = "gated"
    /\ UNCHANGED <<row, cfg, res1, res2, inVars, loopVars, objVars, llmVars, summary>>

\* a validate_row that removes the first forbidden token from the configuration
CallValidateRow_ConsumesToken ==
    /\ pc = "gated"
    /\ res1' = validate_row(row, cfg)
    /\ cfg' = [cfg EXCEPT !.forbidden_tokens = Tail(@)]
    /\ pc' = "validated"
    /\ UNCHANGED <<row, sv, res2, inVars, loopVars, objVars, llmVars, summary>>

CallValidateRow ==
    /\ pc = "gated"
    /\ res1' = validate_row(row, cfg)
    /\ pc' = "validated"
    /\ UNCHANGED <<row, cfg, sv, res2, inVars, loopVars, objVars, llmVars, summary>>

CallValidateRowAgain ==
    /\ pc = "validated"
    /\ res2' = validate_row(row, cfg)
    /\ pc' = "done"
    /\ UNCHANGED <<row, cfg, sv, res1, inVars, loopVars, objVars, llmVars, summary>>

Next == CallShouldValidate \/ CallValidateRow \/ CallValidateRowAgain

Spec == Init /\ [][Next]_vars

-----------------------------------------------------------------------------
(* The rule engine called on rows of sheets of every category *)

CategorySheets ==
    {"General", "Fund Management", "Fondsmanagement", "RegTA", "ZV FoBu", "ZV",
     "Verwahrstelle", "Custodian", "Innenrevision", "Internal Audit",
     "General RegTA", "PDF"}

CategoryQuestions == {"Bitte beschreiben Sie den Prozess.", "Anzahl der Prüfungen"}

CategoryAnswers ==
    {"See attachment Annex 3", "We decline, see policy 4.1", "We refuse to answer",
     "OK", "Wir haben 3 Prozesse definiert und dokumentiert."}

CategoryExpected ==
    {"", "Reference to a document is not acceptable. Refusal is not acceptable.",
     "Reference to a document is not acceptable.", "Number and text obligatory",
     "Ja. Content not relevant. Reference to a document is not acceptable.",
     "Fields must only be filled"}

CategoryRows ==
    [sheet : CategorySheets, row_idx : {1}, question_id : {"1.1"},
     question_text : CategoryQuestions, answer_text : CategoryAnswers,
     expected_text : CategoryExpected]

CategoryInit ==
    /\ pc = "start"
    /\ row \in CategoryRows
    /\ cfg = RuleConfigDefault
    /\ sv = FALSE
    /\ res1 = None
    /\ res2 = None
    /\ PipelineIdle

CategorySpec == CategoryInit /\ [][Next]_vars

-----------------------------------------------------------------------------
(* extract.py: load_questions *)

\* norm_str: an empty cell (None) is "", any other value is trimmed
norm_str(v) == Strip(v)

\* load_questions taking the expected text from column D (ColumnMap.expected_col)
RECURSIVE SheetRows_ReadsExpected(_, _, _)
SheetRows_ReadsExpected(sheet, r, max_row) ==
    IF r > max_row THEN <<>>
    ELSE LET qid == norm_str(sheet.cells[r].qid)
             qtext == norm_str(sheet.cells[r].qtext)
             answer == norm_str(sheet.cells[r].answer)
             rest == SheetRows_ReadsExpected(sheet, r + 1, max_row)
         IN  IF qtext = "" /\ qid = "" /\ answer = "" THEN rest
             ELSE <<[sheet |-> sheet.name, row_idx |-> r,
                     question_id |-> IF qid = "" THEN NoneStr ELSE qid,
                     question_text |-> qtext, answer_text |-> answer,
                     expected_text |-> norm_str(sheet.cells[r].expected)]>> \o rest

\* the rows of one sheet, from row r to max_row
RECURSIVE SheetRows(_, _, _)
SheetRows(sheet, r, max_row) ==
    IF r > max_row THEN <<>>
    ELSE LET qid == norm_str(sheet.cells[r].qid)
             qtext == norm_str(sheet.cells[r].qtext)
             answer == norm_str(sheet.cells[r].answer)
             rest == SheetRows(sheet, r + 1, max_row)
         IN  IF qtext = "" /\ qid = "" /\ answer = "" THEN rest
             ELSE <<[sheet |-> sheet.name, row_idx |-> r,
                     question_id |-> IF qid = "" THEN NoneStr ELSE qid,
                     question_text |-> qtext, answer_text |-> answer,
                     expected_text |-> ""]>> \o rest

\* the rows of the sheets of book from sheet n on; limit 0 is "no limit"
RECURSIVE load_questions(_, _, _)
load_questions(book, limit, n) ==
    IF n > Len(book) THEN <<>>
    ELSE LET ws_max == Len(book[n].cells)
             max_row == IF limit > 0 /\ limit < ws_max THEN limit ELSE ws_max
         IN  SheetRows(book[n], 1, max_row) \o load_questions(book, limit, n + 1)

\* the least position of a non-empty set of positions
First(ps) == CHOOSE p \in ps : \A m \in ps : p <= m

\* s[a-1:b-1] of Python for 1-based a and b
Slice(s, a, b) == IF b <= a THEN "" ELSE SubSeq(s, a, b - 1)

\* re.sub(r"[ \t]+", " ", s) from position i on, one run of blanks at a time
RECURSIVE CollapseBlanks(_, _)
CollapseBlanks(s, i) ==
    LET blanks == {j \in i..Len(s) : Char(s, j) \in {" ", "\t"}}
    IN  IF blanks = {} THEN Slice(s, i, Len(s) + 1)
        ELSE Slice(s, i, First(blanks)) \o " "
             \o CollapseBlanks(s, SkipBlanks(s, First(blanks)))

\* end of the greedy (?:\.\d+)* that starts at position e
RECURSIVE DotGroups(_, _)
DotGroups(s, e) ==
    IF HasAt(s, e, ".") /\ e + 1 <= Len(s) /\ IsDigit(Char(s, e + 1))
    THEN DotGroups(s, SkipDigits(s, e + 1))
    ELSE e

\* last position <= i of s that holds no digit (0 when none)
RECURSIVE SkipDigitsBack(_, _)
SkipDigitsBack(s, i) ==
    IF i >= 1 /\ IsDigit(Char(s, i)) THEN SkipDigitsBack(s, i - 1) ELSE i

\* \b(\d+(?:\.\d+)+)\b matched at position i: the position after the match, 0
\* when there is none; when the longest run of groups ends inside a word the
\* match gives its last group back
QidEnd(s, i) ==
    IF ~(IsDigit(Char(s, i)) /\ ~WordAt(s, i - 1)) THEN 0
    ELSE LET d == SkipDigits(s, i)
             g == DotGroups(s, d)
             back == SkipDigitsBack(s, g - 1)
         IN  IF g = d THEN 0
             ELSE IF ~WordAt(s, g) THEN g
             ELSE IF back > d THEN back
             ELSE 0

\* list(pattern.finditer(text)) from position i on, one match at a time
RECURSIVE QidMatches(_, _)
QidMatches(s, i) ==
    LET starts == {j \in i..Len(s) : QidEnd(s, j) > 0}
    IN  IF starts = {} THEN <<>>
        ELSE <<[start |-> First(starts), end |-> QidEnd(s, First(starts))]>>
             \o QidMatches(s, QidEnd(s, First(starts)))

_split_qid_chunks(text) ==
    LET matches == QidMatches(text, 1)
    IN  [k \in 1..Len(matches) |->
            [qid |-> Slice(text, matches[k].start, matches[k].end),
             chunk |-> Strip(Slice(text, matches[k].end,
                                   IF k < Len(matches) THEN matches[k + 1].start
                                   ELSE Len(text) + 1))]]

\* str.splitlines() from position i on, one line at a time
RECURSIVE SplitLines(_, _)
SplitLines(s, i) ==
    LET breaks == {j \in i..Len(s) : Char(s, j) \in {"\n", "\r", "\f"}}
    IN  IF i > Len(s) THEN <<>>
        ELSE IF breaks = {} THEN <<Slice(s, i, Len(s) + 1)>>
        ELSE <<Slice(s, i, First(breaks))>>
             \o SplitLines(s, First(breaks)
                              + (IF HasAt(s, First(breaks), "\r\n") THEN 2 ELSE 1))

\* [l.strip() for l in ls if l.strip()]
RECURSIVE StrippedLines(_)
StrippedLines(ls) ==
    IF ls = <<>> THEN <<>>
    ELSE (IF Strip(Head(ls)) = "" THEN <<>> ELSE <<Strip(Head(ls))>>)
         \o StrippedLines(Tail(ls))

\* the row of chunk idx
PdfRow(idx, qid, chunk) ==
    LET lines == StrippedLines(SplitLines(chunk, 1))
    IN  [sheet |-> "PDF", row_idx |-> idx, question_id |-> qid,
         question_text |-> IF Len(lines) < 2 THEN "" ELSE lines[1],
         answer_text |-> IF lines = <<>> THEN "" ELSE lines[Len(lines)],
         expected_text |-> ""]

\* raw_text is what _pdf_text returns; limit 0 is "no limit"
load_questions_pdf(raw_text, limit) ==
    LET chunks == _split_qid_chunks(CollapseBlanks(raw_text, 1))
        n == IF limit > 0 /\ limit < Len(chunks) THEN limit ELSE Len(chunks)
    IN  [idx \in 1..n |-> PdfRow(idx, chunks[idx].qid, chunks[idx].chunk)]

-----------------------------------------------------------------------------
(* redact.py: redact_names, redact_rows *)

AsciiUpper == CharSet("ABCDEFGHIJKLMNOPQRSTUVWXYZ")
AsciiLower == CharSet("abcdefghijklmnopqrstuvwxyz")

\* the alternatives of _NAME_LABEL_RE, _TITLE_RE and _BY_FROM_RE
NAME_LABELS ==
    <<"name", "contact", "prepared by", "author", "signed by", "signatory", "respondent">>
TITLES == <<"Mr", "Ms", "Mrs", "Dr", "Prof">>
BY_FROM_WORDS == <<"by", "from", "attn", "attention">>

\* the longest (?:...){0,N} of a name
MaxMoreNames == 3

NoMatch == [end |-> 0, repl |-> ""]

\* first position >= i of s that holds no character of set (Len(s)+1 when none)
RECURSIVE SkipIn(_, _, _)
SkipIn(s, i, set) ==
    IF i <= Len(s) /\ Char(s, i) \in set THEN SkipIn(s, i + 1, set) ELSE i

\* [A-Z][a-z]+ at position i: the position after it, 0 when there is none;
\* under re.I both classes hold the letters of either case
NameWord(s, i, ci) ==
    LET first == IF ci THEN AsciiUpper \cup AsciiLower ELSE AsciiUpper
        rest == IF ci THEN AsciiUpper \cup AsciiLower ELSE AsciiLower
        e == SkipIn(s, i + 1, rest)
    IN  IF i >= 1 /\ i <= Len(s) /\ Char(s, i) \in first /\ e > i + 1 THEN e ELSE 0

\* up to k more (separator, [A-Z][a-z]+) after position e - 1; the separator is
\* \s+ when spaces, one of [\s\-'\.] otherwise
RECURSIVE MoreNames(_, _, _, _, _)
MoreNames(s, e, spaces, ci, k) ==
    IF k = 0 THEN e
    ELSE LET j == IF spaces THEN SkipSpace(s, e) ELSE e + 1
             sep == IF spaces THEN j > e
                    ELSE e <= Len(s) /\ (IsSpace(Char(s, e)) \/ Char(s, e) \in {"-", "'", "."})
             w == IF sep THEN NameWord(s, j, ci) ELSE 0
         IN  IF w = 0 THEN e ELSE MoreNames(s, w, spaces, ci, k - 1)

\* [A-Z][a-z]+(?:sep[A-Z][a-z]+){least,3} at position i
NameEnd(s, i, spaces, ci, least) ==
    LET w == NameWord(s, i, ci)
        e == IF w = 0 THEN 0 ELSE MoreNames(s, w, spaces, ci, MaxMoreNames)
    IN  IF w = 0 \/ (least > 0 /\ e = w) THEN 0 ELSE e

\* _NAME_LABEL_RE at position i of s, l being s lower-cased
NameLabelAt(s, l, i, n) ==
    LET lab == NAME_LABELS[n]
        colon == SkipSpace(s, i + Len(lab))
        e == NameEnd(s, SkipSpace(s, colon + 1), FALSE, TRUE, 0)
    IN  IF /\ HasAt(l, i, lab) /\ Boundary(s, i - 1) /\ Boundary(s, i + Len(lab) - 1)
           /\ colon <= Len(s) /\ Char(s, colon) \in {":", "-"}
           /\ e > 0
        THEN [end |-> e, repl |-> SubSeq(s, i, i + Len(lab) - 1) \o ": [REDACTED]"]
        ELSE NoMatch

\* _TITLE_RE at position i of s
TitleAt(s, i, n) ==
    LET title == TITLES[n]
        dot == i + Len(title)
        sp == IF HasAt(s, dot, ".") THEN dot + 1 ELSE dot
        e == NameEnd(s, SkipSpace(s, sp), FALSE, FALSE, 0)
    IN  IF /\ HasAt(s, i, title) /\ Boundary(s, i - 1)
           /\ SkipSpace(s, sp) > sp
           /\ e > 0
        THEN [end |-> e, repl |-> title \o " [REDACTED]"]
        ELSE NoMatch

\* _BY_FROM_RE at position i of s, l being s lower-cased
ByFromAt(s, l, i, n) ==
    LET word == BY_FROM_WORDS[n]
        sp == i + Len(word)
        e == NameEnd(s, SkipSpace(s, sp), TRUE, TRUE, 1)
    IN  IF /\ HasAt(l, i, word) /\ Boundary(s, i - 1)
           /\ SkipSpace(s, sp) > sp
           /\ e > 0
        THEN [end |-> e, repl |-> SubSeq(s, i, i + Len(word) - 1) \o " [REDACTED]"]
        ELSE NoMatch

\* the alternatives of pattern kind
Alternatives(kind) ==
    CASE kind = "label" -> NAME_LABELS
      [] kind = "title" -> TITLES
      [] OTHER -> BY_FROM_WORDS

\* alternative n of pattern kind at position i
PatternAt(kind, s, l, i, n) ==
    CASE kind = "label" -> NameLabelAt(s, l, i, n)
      [] kind = "title" -> TitleAt(s, i, n)
      [] OTHER -> ByFromAt(s, l, i, n)

\* the match of pattern kind at position i, trying its alternatives from n on
RECURSIVE MatchAt(_, _, _, _, _)
OrNextAlternative(m, kind, s, l, i, n) ==
    IF m.end > 0 THEN m ELSE MatchAt(kind, s, l, i, n + 1)

MatchAt(kind, s, l, i, n) ==
    IF n > Len(Alternatives(kind)) THEN NoMatch
    ELSE OrNextAlternative(PatternAt(kind, s, l, i, n), kind, s, l, i, n)

\* the least position of ps, 0 when there is none
FirstOrNone(ps) == IF ps = {} THEN 0 ELSE First(ps)

\* the leftmost position >= i where pattern kind matches, 0 when there is none
FirstMatch(kind, s, l, i) ==
    FirstOrNone({j \in i..Len(s) : MatchAt(kind, s, l, j, 1).end > 0})

\* pattern.sub(replacement, s) from position i on, one match at a time
RECURSIVE Sub(_, _, _, _)
Replace(kind, s, l, i, j, m) ==
    Slice(s, i, j) \o m.repl \o Sub(kind, s, l, m.end)

SubFrom(kind, s, l, i, j) ==
    IF j = 0 THEN Slice(s, i, Len(s) + 1)
    ELSE Replace(kind, s, l, i, j, MatchAt(kind, s, l, j, 1))

Sub(kind, s, l, i) == SubFrom(kind, s, l, i, FirstMatch(kind, s, l, i))

\* text = P.sub(..., text) for each pattern P of kinds in turn
RECURSIVE SubEach(_, _)
SubEach(text, kinds) ==
    IF kinds = <<>> THEN text
    ELSE SubEach(Sub(Head(kinds), text, Lower(text), 1), Tail(kinds))

redact_names(text) ==
    IF text = "" THEN text ELSE SubEach(text, <<"label", "title", "by_from">>)

\* the redacted text fields of row r
RedactedTexts(r) ==
    [f \in {"question_text", "answer_text", "expected_text"} |-> redact_names(r[f])]

RedactedRow(r, texts) ==
    [sheet |-> r.sheet, row_idx |-> r.row_idx, question_id |-> r.question_id,
     question_text |-> texts["question_text"],
     answer_text |-> texts["answer_text"],
     expected_text |-> texts["expected_text"]]

redact_rows(rs) == [n \in 1..Len(rs) |-> RedactedRow(rs[n], RedactedTexts(rs[n]))]

-----------------------------------------------------------------------------
(* llm.py: llm_refine_findings *)

\* the drivers' --llm-model default
LlmModel == "gpt-5.2"

\* {} | {} of Python dicts: the right operand wins
Merge(a, b) ==
    [key \in (DOMAIN a) \cup (DOMAIN b) |-> IF key \in DOMAIN b THEN b[key] ELSE a[key]]

EmptyDict == [key \in {} |-> TRUE]

\* dict.get(key, default)
Get(d, key, default) == IF key \in DOMAIN d THEN d[key] ELSE default

\* what the chat completion call can do: raise, or return a message content
ApiError == [kind |-> "error"]

JsonOk ==
    "{\"status\": \"OK\", \"reason\": \"Answer is sufficient.\", \"missing_points\": [\"none\"], \"customer_request\": \"Nothing to add.\"}"

JsonMaybe == "{\"status\": \"MAYBE\", \"reason\": \"Unclear.\"}"

MessageContents == {"", "I cannot assess this.\n", "[]", " {} ", JsonOk, JsonMaybe}

ModelReplies == {ApiError} \cup {[kind |-> "content", content |-> c] : c \in MessageContents}

\* json.loads on the stripped contents above: the parsed value, or a raised error
JsonError == [parsed |-> FALSE]

json_loads(text) ==
    CASE text = "[]" -> [parsed |-> TRUE, dict |-> FALSE]
      [] text = "{}" -> [parsed |-> TRUE, dict |-> TRUE, data |-> EmptyDict]
      [] text = JsonOk ->
            [parsed |-> TRUE, dict |-> TRUE,
             data |-> [status |-> "OK", reason |-> "Answer is sufficient.",
                       missing_points |-> <<"none">>,
                       customer_request |-> "Nothing to add."]]
      [] text = JsonMaybe ->
            [parsed |-> TRUE, dict |-> TRUE,
             data |-> [status |-> "MAYBE", reason |-> "Unclear."]]
      [] OTHER -> JsonError

\* an except clause that overwrites the details instead of adding to them
ApplyReply_DropsDetails(f, raw, model) ==
    LET content == Strip(raw)
        loaded == json_loads(content)
    IN  IF loaded.parsed /\ loaded.dict
        THEN [f EXCEPT
                !.status = Get(loaded.data, "status", f.status),
                !.reason = Get(loaded.data, "reason", f.reason),
                !.details = Merge(f.details,
                    [missing_points |-> Get(loaded.data, "missing_points", <<>>),
                     customer_request |-> Get(loaded.data, "customer_request", ""),
                     llm |-> TRUE, llm_model |-> model])]
        ELSE [f EXCEPT
                !.details = [llm_raw |-> content, llm |-> TRUE, llm_model |-> model]]

\* the try block and its except clause, for Finding f and message content raw
ApplyReply(f, raw, model) ==
    LET content == Strip(raw)
        loaded == json_loads(content)
    IN  IF loaded.parsed /\ loaded.dict
        THEN [f EXCEPT
                !.status = Get(loaded.data, "status", f.status),
                !.reason = Get(loaded.data, "reason", f.reason),
                !.details = Merge(f.details,
                    [missing_points |-> Get(loaded.data, "missing_points", <<>>),
                     customer_request |-> Get(loaded.data, "customer_request", ""),
                     llm |-> TRUE, llm_model |-> model])]
        ELSE [f EXCEPT
                !.details = Merge(f.details,
                    [llm_raw |-> content, llm |-> TRUE, llm_model |-> model])]

\* f.status == "NEEDS_EVIDENCE" or (f.details or {}).get("reference_detected")
SkipsLlm(f) ==
    \/ f.status = "NEEDS_EVIDENCE"
    \/ ("reference_detected" \in DOMAIN f.details /\ f.details.reference_detected = TRUE)

\* a loop over all of findings
SliceLen_NoCap == Len(findings)

\* len(findings[:max_items])
SliceLen == IF max_items < Len(findings) THEN max_items ELSE Len(findings)

\* if not os.environ.get("OPENAI_API_KEY"): return findings
RefineNoKey ==
    /\ pc = "refine" /\ ~api_key
    /\ pc' = "refined"
    /\ UNCHANGED <<cfg, rowVars, inVars, loopVars, objVars, llmVars, summary>>

\* one iteration that hits "continue"
RefineSkipItem ==
    /\ pc = "refine" /\ api_key
    /\ item_pos <= SliceLen
    /\ SkipsLlm(heap[findings[item_pos]]) = TRUE
    /\ item_pos' = item_pos + 1
    /\ UNCHANGED <<pc, cfg, rowVars, inVars, loopVars, objVars, calls, heap0, replies,
                   summary>>

\* one iteration that calls the model: the call raises, or its reply is applied
RefineCallItem ==
    /\ pc = "refine" /\ api_key
    /\ item_pos <= SliceLen
    /\ ~SkipsLlm(heap[findings[item_pos]])
    /\ calls' = Append(calls, item_pos)
    /\ \E reply \in ModelReplies :
        /\ replies' = [replies EXCEPT ![item_pos] = reply]
        /\ IF reply = ApiError
           THEN /\ pc' = "raised"
                /\ UNCHANGED <<heap, item_pos>>
           ELSE /\ heap' = [heap EXCEPT ![findings[item_pos]] =
                                ApplyReply(@, reply.content, LlmModel)]
                /\ item_pos' = item_pos + 1
                /\ pc' = pc
    /\ UNCHANGED <<cfg, rowVars, inVars, loopVars, results, findings, heap0, summary>>

\* the loop is over: return findings
RefineReturn ==
    /\ pc = "refine" /\ api_key
    /\ item_pos > SliceLen
    /\ pc' = "refined"
    /\ UNCHANGED <<cfg, rowVars, inVars, loopVars, objVars, llmVars, summary>>

-----------------------------------------------------------------------------
(* report.py: write_report *)

Statuses(rs) == {heap[rs[n]].status : n \in 1..Len(rs)}

CountStatus(rs, st) == Cardinality({n \in 1..Len(rs) : heap[rs[n]].status = st})

RECURSIVE SumCounts(_, _)
SumCounts(counts, keys) ==
    IF keys = {} THEN 0
    ELSE LET key == CHOOSE x \in keys : TRUE
         IN  counts[key] + SumCounts(counts, keys \ {key})

\* a summary whose flagged count leaves out only the OK results
write_report_FlagsSkipped(rs) ==
    LET counts == [st \in Statuses(rs) |-> CountStatus(rs, st)]
        flagged_statuses == {st \in DOMAIN counts : st \notin {"OK"}}
    IN  [total_rows |-> Len(rs),
         total_flagged |-> SumCounts(counts, flagged_statuses),
         by_status |-> counts]

write_report(rs) ==
    LET counts == [st \in Statuses(rs) |-> CountStatus(rs, st)]
        flagged_statuses == {st \in DOMAIN counts : st \notin {"OK", "SKIPPED"}}
    IN  [total_rows |-> Len(rs),
         total_flagged |-> SumCounts(counts, flagged_statuses),
         by_status |-> counts]

-----------------------------------------------------------------------------
(* cli.py: validate (api.py: _validate_rows runs the same loop) *)

\* a map keyed by sheet and question id alone
Key_NoRow(f) == <<f.sheet, f.question_id>>

\* the key of refined_map
Key(f) == <<f.sheet, f.row_idx, f.question_id>>

SkippedPlaceholder(r) ==
    Finding(r, "SKIPPED", "Row is not a question or validation rule does not apply.",
            [validated |-> FALSE])

OkPlaceholder(r) == Finding(r, "OK", "Passed rule checks.", [validated |-> TRUE])

\* rows = load_questions(...); if not rows: raise RuntimeError
LoadQuestions ==
    /\ pc = "load"
    /\ rows' = load_questions(wb, max_rows_per_sheet, 1)
    /\ row_pos' = 1
    /\ pc' = IF rows' = <<>> THEN "no_rows" ELSE "validate"
    /\ UNCHANGED <<cfg, rowVars, inVars, made, objVars, llmVars, summary>>

\* the object created for the row at row_pos is appended to results
Record(f, flagged) ==
    /\ heap' = Append(heap, f)
    /\ results' = Append(results, Len(heap) + 1)
    /\ made' = Append(made, Len(heap) + 1)
    /\ findings' = IF flagged THEN Append(findings, Len(heap) + 1) ELSE findings
    /\ row_pos' = row_pos + 1
    /\ UNCHANGED <<pc, cfg, rowVars, inVars, rows, llmVars, summary>>

\* one iteration of "for row in rows"
ValidateNextRow ==
    /\ pc = "validate" /\ row_pos <= Len(rows)
    /\ LET r == rows[row_pos]
           fnd == validate_row(r, cfg)
       IN  IF ~should_validate(r) THEN Record(SkippedPlaceholder(r), FALSE)
           ELSE IF fnd # None THEN Record(fnd, TRUE)
           ELSE Record(OkPlaceholder(r), FALSE)

\* if use_llm and findings: refined = llm_refine_findings(findings, model=llm_model)
EnterRefine ==
    /\ pc = "validate" /\ row_pos > Len(rows)
    /\ use_llm /\ findings # <<>>
    /\ pc' = "refine"
    /\ item_pos' = 1
    /\ heap0' = heap
    /\ replies' = [n \in 1..Len(findings) |-> Unused]
    /\ UNCHANGED <<cfg, rowVars, inVars, loopVars, objVars, calls, summary>>

SkipRefine ==
    /\ pc = "validate" /\ row_pos > Len(rows)
    /\ ~(use_llm /\ findings # <<>>)
    /\ pc' = "report"
    /\ UNCHANGED <<cfg, rowVars, inVars, loopVars, objVars, llmVars, summary>>

\* refined_map = {key: f for f in refined}: the last finding with a key wins
RefinedMapGet(key, default) ==
    LET hits == {n \in 1..Len(findings) : Key(heap[findings[n]]) = key}
    IN  IF hits = {} THEN default
        ELSE findings[CHOOSE n \in hits : \A m \in hits : m <= n]

\* results = [refined_map.get((r.sheet, r.row_idx, r.question_id), r) for r in results]
ReplaceResults ==
    /\ pc = "refined"
    /\ results' = [n \in 1..Len(results) |->
                      RefinedMapGet(Key(heap[results[n]]), results[n])]
    /\ pc' = "report"
    /\ UNCHANGED <<cfg, rowVars, inVars, loopVars, heap, findings, llmVars, summary>>

\* result = write_report(results, out_dir)
WriteReport ==
    /\ pc = "report"
    /\ summary' = write_report(results)
    /\ pc' = "written"
    /\ UNCHANGED <<cfg, rowVars, inVars, loopVars, objVars, llmVars>>

-----------------------------------------------------------------------------
(* The validation run of the drivers, from the workbook to the report *)

\* rows of the first sheet of a workbook, at most
MaxSheetRows == 2

\* cells A (id), B (question), C (answer) of one worksheet row
CellRows ==
    { [qid |-> "", qtext |-> "", answer |-> ""],
      [qid |-> "1", qtext |-> "Prozesse", answer |-> ""],
      [qid |-> "", qtext |-> "Bitte beschreiben Sie den Prozess.", answer |-> " OK "],
      [qid |-> "", qtext |-> "Bitte beschreiben Sie den Prozess.",
       answer |-> "See attachment Annex 3"],
      [qid |-> "1.2", qtext |-> "Bitte beschreiben Sie den Prozess.",
       answer |-> "Wir haben 3 Prozesse definiert und dokumentiert."],
      [qid |-> "", qtext |-> "Telefon?", answer |-> "Ja"] }

CellSeqs(n) == UNION {[1..m -> CellRows] : m \in 0..n}

\* a workbook: sheet "General", and a sheet "RegTA" of at most one row
Workbooks ==
    { <<[name |-> "General", cells |-> g], [name |-> "RegTA", cells |-> t]>> :
        g \in CellSeqs(MaxSheetRows), t \in {<<>>} \cup {<<c>> : c \in CellRows} }

\* llm_refine_findings' default max_items
DefaultMaxItems == 30

RowIdle == row = Unused /\ sv = FALSE /\ res1 = None /\ res2 = None

PipelineInit ==
    /\ pc = "load"
    /\ wb \in Workbooks
    /\ max_rows_per_sheet \in {0, 1}
    /\ use_llm \in BOOLEAN
    /\ api_key \in BOOLEAN
    /\ max_items = DefaultMaxItems
    /\ cfg = RuleConfigDefault
    /\ RowIdle
    /\ rows = <<>> /\ row_pos = 0 /\ made = <<>>
    /\ heap = <<>> /\ results = <<>> /\ findings = <<>>
    /\ item_pos = 0 /\ calls = <<>> /\ heap0 = <<>> /\ replies = <<>>
    /\ summary = Unused

PipelineNext ==
    \/ LoadQuestions
    \/ ValidateNextRow
    \/ EnterRefine
    \/ SkipRefine
    \/ RefineNoKey
    \/ RefineSkipItem
    \/ RefineCallItem
    \/ RefineReturn
    \/ ReplaceResults
    \/ WriteReport

Pipeline == PipelineInit /\ [][PipelineNext]_vars

-----------------------------------------------------------------------------
(* llm_refine_findings on its own, with every cap from 0 up *)

\* findings handed to one call of llm_refine_findings
MaxFindings == 3

\* findings validate_row produces
SampleRow(sheet, idx, cell) ==
    [sheet |-> sheet, row_idx |-> idx, question_id |-> NoneStr,
     question_text |-> cell.qtext, answer_text |-> Strip(cell.answer),
     expected_text |-> ""]

SampleFindings(idx) ==
    { validate_row(SampleRow("General", idx, cell), RuleConfigDefault) :
        cell \in {c \in CellRows :
                    validate_row(SampleRow("General", idx, c), RuleConfigDefault) # None} }

FindingLists ==
    UNION { {fs \in [1..m -> UNION {SampleFindings(n) : n \in 1..m}] :
                \A n \in 1..m : fs[n].row_idx = n} : m \in 0..MaxFindings }

RefineInit ==
    /\ pc = "refine"
    /\ heap \in FindingLists
    /\ findings = [n \in 1..Len(heap) |-> n]
    /\ results = findings
    /\ heap0 = heap
    /\ replies = [n \in 1..Len(heap) |-> Unused]
    /\ item_pos = 1
    /\ calls = <<>>
    /\ api_key \in BOOLEAN
    /\ max_items \in 0..MaxFindings
    /\ use_llm = TRUE
    /\ cfg = RuleConfigDefault
    /\ RowIdle
    /\ wb = Unused /\ max_rows_per_sheet = 0
    /\ rows = <<>> /\ row_pos = 0 /\ made = findings
    /\ summary = Unused

RefineNext == RefineNoKey \/ RefineSkipItem \/ RefineCallItem \/ RefineReturn

RefineSpec == RefineInit /\ [][RefineNext]_vars

-----------------------------------------------------------------------------
(* The drivers from the uploaded file to the end of the rule loop *)

\* cells A (id), B (question), C (answer), D (model answer) of one worksheet row
FilledCells ==
    { [qid |-> "", qtext |-> "", answer |-> "", expected |-> "Hinweis"],
      [qid |-> "1", qtext |-> "Prozesse", answer |-> "",
       expected |-> "Please note: the following is optional"],
      [qid |-> "1.1", qtext |-> "Bitte beschreiben Sie den Prozess.",
       answer |-> "See attachment Annex 3",
       expected |-> "Reference to a document is not acceptable."],
      [qid |-> "1.2", qtext |-> "Bitte bestätigen Sie die Angaben.",
       answer |-> "We refuse to answer", expected |-> "Ja. Refusal is not acceptable."],
      [qid |-> "", qtext |-> "Anzahl der Prüfungen", answer |-> "Dr. Max Mustermann",
       expected |-> "Number and text obligatory"],
      [qid |-> "2", qtext |-> "Ort / Datum", answer |-> "signed by: Max Mustermann",
       expected |-> "Name of file"] }

FilledCellSeqs(n) == UNION {[1..m -> FilledCells] : m \in 0..n}

\* the text _pdf_text returns for an uploaded PDF
PdfTexts ==
    { "",
      "DDQ 2024\n1.1 Bitte beschreiben Sie den Prozess.\nSee attachment Annex 3\n1.2 Ort / Datum\nTBD",
      "2.1 Prozesse\nPlease note: optional\n\n2.2\tTelefon?\n +49 30 1234567 \n3.1 prepared by: Max Mustermann",
      "4.1 Bitte bestätigen Sie.\nWe decline, see policy 4.1\nJa" }

\* the filled file: a workbook of a sheet "General" and a sheet "RegTA" of at
\* most one row, or a PDF
FilledFiles ==
    { [suffix |-> ".xlsx", text |-> "",
       book |-> <<[name |-> "General", cells |-> g], [name |-> "RegTA", cells |-> t]>>] :
        g \in FilledCellSeqs(MaxSheetRows), t \in {<<>>} \cup {<<c>> : c \in FilledCells} }
    \cup { [suffix |-> ".pdf", text |-> t, book |-> <<>>] : t \in PdfTexts }

\* if suffix == ".pdf": load_questions_pdf(...) else: load_questions(...)
LoadRows(file, limit) ==
    IF file.suffix = ".pdf" THEN load_questions_pdf(file.text, limit)
    ELSE load_questions(file.book, limit, 1)

\* cli.py: rows = load_questions...(...); if not rows: raise RuntimeError
LoadFile ==
    /\ pc = "cli"
    /\ rows' = LoadRows(wb, max_rows_per_sheet)
    /\ row_pos' = 1
    /\ pc' = IF rows' = <<>> THEN "no_rows" ELSE "validate"
    /\ UNCHANGED <<cfg, rowVars, inVars, made, objVars, llmVars, summary>>

\* api.py: rows = load_questions...(...)
UploadFile ==
    /\ pc = "api"
    /\ rows' = LoadRows(wb, max_rows_per_sheet)
    /\ pc' = "redact"
    /\ UNCHANGED <<cfg, rowVars, inVars, row_pos, made, objVars, llmVars, summary>>

\* api.py: rows = redact_rows(rows); if not rows: raise HTTPException
RedactRows ==
    /\ pc = "redact"
    /\ rows' = redact_rows(rows)
    /\ row_pos' = 1
    /\ pc' = IF rows' = <<>> THEN "no_rows" ELSE "validate"
    /\ UNCHANGED <<cfg, rowVars, inVars, made, objVars, llmVars, summary>>

ExtractInit ==
    /\ pc \in {"cli", "api"}
    /\ wb \in FilledFiles
    /\ max_rows_per_sheet \in {0, 1}
    /\ use_llm = FALSE
    /\ api_key = FALSE
    /\ max_items = DefaultMaxItems
    /\ cfg = RuleConfigDefault
    /\ RowIdle
    /\ rows = <<>> /\ row_pos = 0 /\ made = <<>>
    /\ heap = <<>> /\ results = <<>> /\ findings = <<>>
    /\ item_pos = 0 /\ calls = <<>> /\ heap0 = <<>> /\ replies = <<>>
    /\ summary = Unused

ExtractNext == LoadFile \/ UploadFile \/ RedactRows \/ ValidateNextRow

ExtractSpec == ExtractInit /\ [][ExtractNext]_vars

-----------------------------------------------------------------------------
(* Properties of the rule engine *)

EmptyAnswer == Strip(row.answer_text) = ""

\* some configured token is a substring of the lower-cased answer
ForbiddenPositions ==
    {n \in 1..Len(cfg.forbidden_tokens) :
        Contains(Lower(row.answer_text), cfg.forbidden_tokens[n])}

FirstForbiddenToken ==
    cfg.forbidden_tokens[CHOOSE n \in ForbiddenPositions :
                            \A m \in ForbiddenPositions : n <= m]

\* C1 as stated: every row with an empty or whitespace-only answer that is
\* mandatory and no signature row gets a REJECTED finding from validate_row.
C1_EmptyMandatoryRejected ==
    (pc = "validated" /\ EmptyAnswer /\ is_mandatory(row) /\ ~is_signature_row(row))
        => (res1 # None /\ res1.status = "REJECTED")

\* C1 amended: every row that passes should_validate, has an empty or
\* whitespace-only answer, is mandatory and is no signature row gets a REJECTED
\* finding from validate_row.
C1_GatedEmptyMandatoryRejected ==
    (pc = "validated" /\ sv /\ EmptyAnswer /\ is_mandatory(row) /\ ~is_signature_row(row))
        => (res1 # None /\ res1.status = "REJECTED")

C1_Witness ==
    /\ pc = "validated" /\ sv /\ EmptyAnswer
    /\ is_mandatory(row) /\ ~is_signature_row(row)
    /\ res1 # None /\ res1.status = "REJECTED"

\* C3: a validated, non-signature, mandatory row whose non-empty answer contains
\* a forbidden token is REJECTED with details.forbidden the first matching token
\* in configuration order, and nothing else in details (no later rule decided).
C3_ForbiddenRejectedFirstToken ==
    (/\ pc = "validated" /\ sv /\ ~is_signature_row(row) /\ ~EmptyAnswer
     /\ ForbiddenPositions # {} /\ is_mandatory(row))
        => (/\ res1 # None
            /\ res1.status = "REJECTED"
            /\ res1.details = [forbidden |-> FirstForbiddenToken])

C3_Witness ==
    /\ pc = "validated" /\ sv /\ ~is_signature_row(row) /\ is_mandatory(row)
    /\ row.answer_text = "N/A (later)"
    /\ Cardinality(ForbiddenPositions) > 1
    /\ res1 # None /\ res1.status = "REJECTED" /\ res1.details = [forbidden |-> "n/a"]

\* C4: a signature row whose trimmed answer is non-empty and holds no forbidden
\* token gets no finding, whatever its sheet, expected text and answer.
C4_CleanSignaturePasses ==
    (/\ pc = "validated" /\ is_signature_row(row) /\ ~EmptyAnswer
     /\ ForbiddenPositions = {})
        => res1 = None

C4_Witness ==
    /\ pc = "validated" /\ sv /\ is_signature_row(row) /\ ~EmptyAnswer
    /\ ForbiddenPositions = {}
    /\ detect_reference(row.answer_text)
    /\ res1 = None

\* C5: should_validate is false for every row whose expected text starts with
\* "please note", whatever the sheet, question text and answer.
C5_NoteShortCircuits ==
    (pc = "gated" /\ StartsWith(Lower(row.expected_text), "please note")) => ~sv

C5_Witness ==
    /\ pc = "gated" /\ StartsWith(Lower(row.expected_text), "please note")
    /\ is_signature_row(row)
    /\ ~sv

-----------------------------------------------------------------------------
(* Properties of the validation run *)

IsFlaggedRow(n) == should_validate(rows[n]) /\ validate_row(rows[n], cfg) # None

\* C2: once the drivers have built the result sequence, with or without LLM
\* refinement, it is as long as the row sequence, result n carries the sheet,
\* row index and question id of row n, and result n is the SKIPPED placeholder
\* iff should_validate(row n) is false, the OK placeholder iff should_validate is
\* true and validate_row returns none, and otherwise the very finding object
\* validate_row produced for row n (refined in place when the LLM ran).
C2_ResultsMatchRows ==
    pc \in {"report", "written"} =>
        /\ rows # <<>>
        /\ Len(results) = Len(rows)
        /\ \A n \in 1..Len(rows) :
            LET r == rows[n]
                f == heap[results[n]]
                gated == should_validate(r)
                fnd == validate_row(r, cfg)
            IN  /\ <<f.sheet, f.row_idx, f.question_id>> = <<r.sheet, r.row_idx, r.question_id>>
                /\ (f = SkippedPlaceholder(r)) <=> ~gated
                /\ (f = OkPlaceholder(r)) <=> (gated /\ fnd = None)
                /\ (gated /\ fnd # None) =>
                        /\ results[n] = made[n]
                        /\ \E m \in 1..Len(findings) : findings[m] = results[n]
                        /\ heap0 = <<>> => f = fnd

\* a refined run whose results hold a placeholder and two findings of one sheet
\* that share their question id, the first of them changed by the LLM
C2_Witness ==
    /\ pc = "written"
    /\ calls # <<>>
    /\ \E n \in 1..Len(rows) :
        heap[results[n]] \in {SkippedPlaceholder(rows[n]), OkPlaceholder(rows[n])}
    /\ \E n, m \in 1..Len(rows) :
        /\ n < m /\ IsFlaggedRow(n) /\ IsFlaggedRow(m)
        /\ rows[n].sheet = rows[m].sheet
        /\ rows[n].question_id = rows[m].question_id
        /\ heap[results[n]] # heap0[results[n]]

-----------------------------------------------------------------------------
(* Properties of the LLM refinement *)

\* the model call at position n returned a message
Answered(n) == n \in 1..Len(replies) /\ replies[n] # Unused /\ replies[n] # ApiError

\* the message at position n is not JSON
NotJson(n) == Answered(n) /\ json_loads(Strip(replies[n].content)) = JsonError

\* the message at position n is JSON, but no object
NotObject(n) ==
    /\ Answered(n)
    /\ json_loads(Strip(replies[n].content)) # JsonError
    /\ ~json_loads(Strip(replies[n].content)).dict

Before(n) == heap0[findings[n]]

After(n) == heap[findings[n]]

KeepsVerdict(n) ==
    /\ After(n).status = Before(n).status
    /\ After(n).reason = Before(n).reason
    /\ \A key \in DOMAIN Before(n).details :
        key \in DOMAIN After(n).details /\ After(n).details[key] = Before(n).details[key]

\* C7: a failure while refining one finding, be it an error raised by the model
\* call or a malformed response, never aborts llm_refine_findings; the failing
\* finding keeps its status and reason.
C7_FailureNeverAborts ==
    /\ pc # "raised"
    /\ \A n \in 1..Len(replies) :
        (NotJson(n) \/ NotObject(n)) =>
            /\ After(n).status = Before(n).status
            /\ After(n).reason = Before(n).reason

InCalls(n) == \E k \in 1..Len(calls) : calls[k] = n

\* C9: a model call is issued for a finding only if a credential is configured,
\* the finding is among the first max_items of the list, its status is not
\* NEEDS_EVIDENCE and its details hold no reference_detected entry; every finding
\* without a call is unchanged; at most max_items calls are made, and none
\* without a credential.
C9_CallsGatedAndCapped ==
    /\ \A k \in 1..Len(calls) :
        /\ api_key
        /\ calls[k] \in 1..Len(findings)
        /\ calls[k] <= max_items
        /\ Before(calls[k]).status # "NEEDS_EVIDENCE"
        /\ "reference_detected" \notin DOMAIN Before(calls[k]).details
    /\ \A n \in 1..Len(findings) : ~InCalls(n) => After(n) = Before(n)
    /\ Len(calls) <= max_items
    /\ ~api_key => calls = <<>>

\* the call returned after a model call, with a finding beyond the cap that a
\* call would otherwise have refined and a NEEDS_EVIDENCE finding passed over
C9_Witness ==
    /\ pc = "refined"
    /\ calls # <<>>
    /\ \E n \in 1..Len(findings) : n > max_items /\ ~SkipsLlm(Before(n))
    /\ \E n \in 1..Len(findings) : n <= max_items /\ SkipsLlm(Before(n))

StatusValues == {"OK", "SKIPPED", "INCOMPLETE", "REJECTED", "NEEDS_EVIDENCE"}

\* C10: every finding of the result sequence handed to the report writer has a
\* status of the closed set OK, SKIPPED, INCOMPLETE, REJECTED, NEEDS_EVIDENCE.
C10_ReportedStatusClosed ==
    pc \in {"report", "written"} =>
        \A n \in 1..Len(results) : heap[results[n]].status \in StatusValues

-----------------------------------------------------------------------------
(* Properties of the report *)

ResultsWithStatus(sts) == {n \in 1..Len(results) : heap[results[n]].status \in sts}

\* C11: the summary write_report returns has total_rows equal to the number of
\* results, by_status holding for exactly the statuses that occur the number of
\* results with that status (the counts sum to total_rows), and total_flagged
\* equal to the number of results whose status is neither OK nor SKIPPED.
C11_SummaryCounts ==
    pc = "written" =>
        /\ summary.total_rows = Len(results)
        /\ DOMAIN summary.by_status = {heap[results[n]].status : n \in 1..Len(results)}
        /\ \A st \in DOMAIN summary.by_status :
            summary.by_status[st] = Cardinality(ResultsWithStatus({st}))
        /\ SumCounts(summary.by_status, DOMAIN summary.by_status) = summary.total_rows
        /\ summary.total_flagged =
                Len(results) - Cardinality(ResultsWithStatus({"OK", "SKIPPED"}))

\* a report over a skipped row and two flagged rows of different status
C11_Witness ==
    /\ pc = "written"
    /\ ResultsWithStatus({"SKIPPED"}) # {}
    /\ summary.total_flagged = 2
    /\ Cardinality(DOMAIN summary.by_status) = 3

-----------------------------------------------------------------------------
(* Properties of the cascade of validate_row *)

Answer == Strip(row.answer_text)

Expected == Strip(row.expected_text)

\* the row is past the gate, the signature rule and the empty-answer rule
InCascade == sv /\ ~is_signature_row(row) /\ Answer # ""

\* the verdict of rule n of the cascade alone
RuleFires(n) ==
    LET v == CASE n = 1 -> ForbiddenRule(row, Answer, is_mandatory(row), cfg)
               [] n = 2 -> FilenameRule(row, Answer, Expected)
               [] n = 3 -> AllgemeinerRules(row, Answer, Expected)
               [] n = 4 -> FondsmanagementRules(row, Answer, Expected)
               [] n = 5 -> RegtaRules(row, Answer, Expected)
               [] n = 6 -> ZvFobuRules(row, Answer, Expected)
               [] n = 7 -> VerwahrstelleRules(row, Answer, Expected)
               [] n = 8 -> InnenrevisionRules(row, Answer, Expected)
               [] n = 9 -> ReferenceRule(row, Answer)
               [] n = 10 -> YesNoRule(row, Answer, Expected)
               [] n = 11 -> DescriptiveRule(row, Answer, Expected, cfg)
    IN  v # Continue

\* no rule of the cascade before rule n decides the row
NoRuleBefore(n) == \A m \in 1..(n - 1) : ~RuleFires(m)

DisallowReferenceSheet ==
    \/ is_fondsmanagement_sheet(row.sheet) \/ is_regta_sheet(row.sheet)
    \/ is_zv_fobu_sheet(row.sheet) \/ is_verwahrstelle_sheet(row.sheet)

IsReferenceFinding(f) ==
    f # None /\ f.status = "NEEDS_EVIDENCE" /\ f.details = [reference_detected |-> TRUE]

\* C12 as stated: every row whose answer holds a reference, whose expected text
\* is empty and whose sheet is of no disallow-reference category gets a
\* NEEDS_EVIDENCE finding with details.reference_detected = true.
C12_ReferenceNeedsEvidence ==
    (/\ pc = "validated" /\ detect_reference(row.answer_text)
     /\ row.expected_text = "" /\ ~DisallowReferenceSheet)
        => IsReferenceFinding(res1)

\* C12 amended: a row that passes should_validate, is no signature row, has an
\* empty expected text and an answer holding a reference, and that neither the
\* forbidden-token rule nor the e-mail, phone and URL checks of a general sheet
\* flag, gets a NEEDS_EVIDENCE finding with details.reference_detected = true.
C12_GatedReferenceNeedsEvidence ==
    (/\ pc = "validated" /\ row.expected_text = "" /\ InCascade
     /\ detect_reference(Answer) /\ ~RuleFires(1) /\ ~RuleFires(3))
        => IsReferenceFinding(res1)

C12_Witness ==
    /\ pc = "validated" /\ row.expected_text = "" /\ InCascade
    /\ row.answer_text = "See attachment Annex 3"
    /\ is_allgemeiner_sheet(row.sheet)
    /\ IsReferenceFinding(res1)

IsExpectedFinding(f, what) ==
    f # None /\ f.status = "INCOMPLETE" /\ f.details = [expected |-> what]

\* C13: for a row past the gate that no earlier rule of the cascade decides, an
\* expected YES with an answer holding no yes token gives INCOMPLETE with
\* details.expected = "YES", and an expected NO with an answer holding no no
\* token gives INCOMPLETE with details.expected = "NO"; when the expected text
\* holds both "ja" and "nein", or neither, no yes/no finding is produced.
C13_YesNoExpectation ==
    pc = "validated" =>
        LET yn == expected_yes_no(Expected)
        IN  /\ (InCascade /\ yn = "YES" /\ ~YES_PAT(Answer) /\ NoRuleBefore(10))
                    => IsExpectedFinding(res1, "YES")
            /\ (InCascade /\ yn = "NO" /\ ~NO_PAT(Answer) /\ NoRuleBefore(10))
                    => IsExpectedFinding(res1, "NO")
            /\ yn = NoneStr
                    => ~(IsExpectedFinding(res1, "YES") \/ IsExpectedFinding(res1, "NO"))

\* the scenario row: expected "Ja, bestätigt.", answer "Nein"
C13_Witness ==
    /\ pc = "validated" /\ InCascade /\ NoRuleBefore(10)
    /\ row.expected_text = "Ja, bestätigt." /\ row.answer_text = "Nein"
    /\ IsExpectedFinding(res1, "YES")

IsDescriptive ==
    \/ Contains(Lower(Expected), "[text]")
    \/ SearchAnyWord(row.question_text, DESCRIPTIVE_VERBS)

\* C14: for a row that reaches the descriptive check and whose expected text
\* holds "[text]" or whose question holds a descriptive verb, validate_row
\* returns INCOMPLETE exactly when the trimmed answer is shorter than
\* cfg.min_len_descriptive, and none when it is at least that long.
C14_DescriptiveLength ==
    (pc = "validated" /\ InCascade /\ IsDescriptive /\ NoRuleBefore(11)) =>
        IF Len(Answer) < cfg.min_len_descriptive
        THEN /\ res1 # None /\ res1.status = "INCOMPLETE"
             /\ res1.details = [min_len |-> cfg.min_len_descriptive,
                                actual_len |-> Len(Answer)]
        ELSE res1 = None

\* an answer one character short of the minimum length is flagged
C14_Witness ==
    /\ pc = "validated" /\ InCascade /\ IsDescriptive /\ NoRuleBefore(11)
    /\ Len(Answer) = cfg.min_len_descriptive - 1
    /\ res1 # None /\ res1.status = "INCOMPLETE"

MentionsEmail ==
    \/ Contains(Lower(row.question_text), "e-mail")
    \/ Contains(Lower(row.question_text), "email")
    \/ Contains(Lower(Expected), "e-mail")

\* C15: on a general sheet, a row past the gate that is no signature row, has a
\* non-empty answer and is not caught by the forbidden-token, filename or
\* number+text rules, whose question mentions e-mail or email (or whose expected
\* text mentions e-mail) and whose answer is not e-mail shaped, gets INCOMPLETE
\* with details.expected = "email", whatever the later rules would say.
C15_GeneralEmailShape ==
    (/\ pc = "validated" /\ InCascade /\ is_allgemeiner_sheet(row.sheet)
     /\ MentionsEmail /\ ~looks_like_email(Answer)
     /\ ~RuleFires(1) /\ ~RuleFires(2)
     /\ NumberAndTextRule(row, Answer, Expected) = Continue)
        => IsExpectedFinding(res1, "email")

\* the e-mail demand comes from the expected text, the question asks for a phone
\* number, and the answer, a reference, is neither
C15_Witness ==
    /\ pc = "validated" /\ InCascade /\ is_allgemeiner_sheet(row.sheet)
    /\ Contains(Lower(Expected), "e-mail") /\ Contains(Lower(row.question_text), "telefon")
    /\ ~looks_like_phone(Answer) /\ detect_reference(Answer)
    /\ IsExpectedFinding(res1, "email")

\* the keys of the details the flagging branches of validate_row write
DetailTags ==
    { {"expected"}, {"mandatory"}, {"forbidden"}, {"reference_only"}, {"refusal"},
      {"reference_detected"}, {"min_len", "actual_len"} }

\* C16: every Finding validate_row returns has a status among INCOMPLETE,
\* REJECTED and NEEDS_EVIDENCE (never OK or SKIPPED), a non-empty reason and
\* non-empty details that carry the tag of a flagging branch.
C16_FindingWellFormed ==
    (pc \in {"validated", "done"} /\ res1 # None) =>
        /\ res1.status \in {"INCOMPLETE", "REJECTED", "NEEDS_EVIDENCE"}
        /\ res1.reason # ""
        /\ DOMAIN res1.details # {}
        /\ DOMAIN res1.details \in DetailTags

\* a finding of the filename rule
C16_Witness ==
    /\ pc = "validated" /\ res1 # None
    /\ res1.status = "INCOMPLETE" /\ res1.details = [expected |-> "filename"]
    /\ res1.reason # ""

-----------------------------------------------------------------------------
(* Properties of the sheet categories *)

\* both none, or findings equal in status, reason and details
SameOutcome(f, g) ==
    IF f = None \/ g = None THEN f = g
    ELSE f.status = g.status /\ f.reason = g.reason /\ f.details = g.details

\* C17: the disallow-reference and disallow-refusal checks are one policy in the
\* four categories: a row of a fund-management sheet and the same row on a regta,
\* a zv+fobu or a custodian sheet get the same outcome from validate_row.
C17_SamePolicyAllCategories ==
    (pc = "validated" /\ row.sheet = "Fund Management") =>
        \A other \in {"RegTA", "ZV FoBu", "Verwahrstelle"} :
            SameOutcome(res1, validate_row([row EXCEPT !.sheet = other], cfg))

IsRejectedFor(f, tag) == f # None /\ f.status = "REJECTED" /\ DOMAIN f.details = {tag}

\* C18: a validated row on a sheet whose name contains "custodian" is subject to
\* the disallow-reference and disallow-refusal REJECTED rules, and a row on a
\* sheet whose name contains "internal audit" to the number+text INCOMPLETE rule.
C18_EnglishCategoryKeywords ==
    (pc = "validated" /\ InCascade /\ ~RuleFires(1) /\ ~RuleFires(2)) =>
        /\ (/\ Contains(Lower(row.sheet), "custodian")
            /\ expected_disallow_reference(Expected) /\ detect_reference(Answer))
                => IsRejectedFor(res1, "reference_only")
        /\ (/\ Contains(Lower(row.sheet), "custodian")
            /\ expected_disallow_refusal(Expected) /\ REFUSAL_PAT(Answer)
            /\ ~detect_reference(Answer))
                => IsRejectedFor(res1, "refusal")
        /\ (/\ Contains(Lower(row.sheet), "internal audit")
            /\ expected_requires_number_and_text(Expected)
            /\ ~has_number_and_text(Answer))
                => IsExpectedFinding(res1, "number+text")

MentionsPhone ==
    \/ Contains(Lower(row.question_text), "telefon")
    \/ Contains(Lower(row.question_text), "phone")
    \/ Contains(Lower(Expected), "telefon")

MentionsWeb == Contains(Lower(row.question_text), "web")

SaysContentNotRelevant ==
    \/ Contains(Lower(Expected), "content not relevant")
    \/ Contains(Lower(Expected), "fields must only be filled")

\* C19: on a general sheet, a row past the gate that is no signature row, has a
\* non-empty answer, survives the forbidden-token, filename, number+text,
\* e-mail, phone and URL checks and whose expected text says content not
\* relevant or fields must only be filled gets no finding, whatever the later
\* rules and the other categories the sheet name matches would say.
C19_ContentNotRelevantPasses ==
    (/\ pc = "validated" /\ InCascade /\ is_allgemeiner_sheet(row.sheet)
     /\ SaysContentNotRelevant
     /\ ~RuleFires(1) /\ ~RuleFires(2)
     /\ NumberAndTextRule(row, Answer, Expected) = Continue
     /\ MentionsEmail => looks_like_email(Answer)
     /\ MentionsPhone => looks_like_phone(Answer)
     /\ MentionsWeb => looks_like_url(Answer))
        => res1 = None

\* the sheet is general and regta at once, the answer is a reference the regta
\* block would reject, and the expected YES is not met either
C19_Witness ==
    /\ pc = "validated" /\ InCascade /\ SaysContentNotRelevant
    /\ is_allgemeiner_sheet(row.sheet) /\ is_regta_sheet(row.sheet)
    /\ expected_disallow_reference(Expected) /\ detect_reference(Answer)
    /\ expected_yes_no(Expected) = "YES" /\ ~YES_PAT(Answer)
    /\ res1 = None

Categories ==
    {"general", "fund management", "internal audit", "regta", "zv+fobu", "custodian"}

\* the categories whose classifier returns true for the sheet name
MatchedCategories(sheet) ==
    {c \in Categories :
        CASE c = "general" -> is_allgemeiner_sheet(sheet)
          [] c = "fund management" -> is_fondsmanagement_sheet(sheet)
          [] c = "internal audit" -> is_innenrevision_sheet(sheet)
          [] c = "regta" -> is_regta_sheet(sheet)
          [] c = "zv+fobu" -> is_zv_fobu_sheet(sheet)
          [] c = "custodian" -> is_verwahrstelle_sheet(sheet)}

\* the categories whose keywords the lower-cased sheet name holds
KeywordCategories(sheet) ==
    LET l == Lower(sheet)
        has(w) == Contains(l, w)
    IN  {c \in Categories :
            CASE c = "general" -> has("allgemein") \/ has("general")
              [] c = "fund management" -> has("fondsmanagement") \/ has("fund management")
              [] c = "internal audit" -> has("innenrevision")
              [] c = "regta" -> has("regta")
              [] c = "zv+fobu" -> has("zv") /\ has("fobu")
              [] c = "custodian" -> has("verwahrstelle")}

-----------------------------------------------------------------------------
(* Properties of signature rows *)

IsSignatureFinding(f) ==
    f # None /\ f.status = "INCOMPLETE" /\ f.details = [expected |-> "signature"]

\* C22 as stated: for every signature row validate_row returns none or an
\* INCOMPLETE finding with details.expected = "signature", and a forbidden
\* token in the answer is flagged whether or not the row is mandatory.
C22_SignatureRowOutcome ==
    (pc = "validated" /\ is_signature_row(row)) =>
        /\ res1 = None \/ IsSignatureFinding(res1)
        /\ ForbiddenPositions # {} => IsSignatureFinding(res1)

\* C22, amended: for every signature row validate_row returns none or an
\* INCOMPLETE finding with details.expected = "signature", never REJECTED or
\* NEEDS_EVIDENCE; a signature row that should_validate rejects gets none, and
\* one that passes should_validate gets the finding exactly when its trimmed
\* answer is empty or holds a forbidden token, mandatory or not.
C22_GatedSignatureRowOutcome ==
    (pc = "validated" /\ is_signature_row(row)) =>
        /\ res1 = None \/ IsSignatureFinding(res1)
        /\ ~sv => res1 = None
        /\ sv => (IsSignatureFinding(res1) <=> (EmptyAnswer \/ ForbiddenPositions # {}))

\* a signature row that is not mandatory and is flagged for its forbidden token
C22_Witness ==
    /\ pc = "validated" /\ sv /\ is_signature_row(row) /\ ~is_mandatory(row)
    /\ ~EmptyAnswer /\ ForbiddenPositions # {}
    /\ IsSignatureFinding(res1)

-----------------------------------------------------------------------------
(* Properties of the extracted rows *)

ExpectedTags == {"filename", "number+text", "YES", "NO"}

=============================================================================
